---- MODULE Spec2Model ----
(***************************************************************************)
(* A model of mccd_utils.py: the MegaCam local-to-global coordinate        *)
(* mapper (Loc2Glob), the catalogue batching and assembling of MccdInputs, *)
(* the masks, the outlier rejection, the neighbour searches, the           *)
(* polynomial matrices of interpolation_Pi and the construction of a       *)
(* MomentInterpolator.                                                     *)
(*                                                                         *)
(* Every component has its own variables and its own specification; a      *)
(* component that a specification does not exercise stays in its idle      *)
(* state.  Floating-point quantities whose values are integral in the      *)
(* source (the shifts) are integers here.                                  *)
(***************************************************************************)
EXTENDS Integers, Sequences, FiniteSets, TLC

VARIABLES
    \* Loc2Glob.loc2glob_img_coord: the call's position, arguments and result
    m_pc, m_ccd, m_x, m_y, m_ret,
    \* MccdInputs parsing: the call's position, which parser ran, its input
    \* list, and the fields starcat_list, catalog_ids, num_catalogs
    b_pc, b_op, b_input, starcat_list, catalog_ids, num_catalogs,
    \* MccdInputs assembling: the exposures get_inputs is asked for, the index
    \* of the next one, the outcome and return value of the last call, and the
    \* fields the instance stores
    a_calls, a_idx, a_last, a_ret,
    star_list, position_list, mask_list, ccd_list, SNR_list, RA_list, DEC_list,
    \* MccdInputs.outlier_rejection: the call's position, its arguments and
    \* what it returns, what the print_fun it is given does, and whether the
    \* lists it is given are the ones get_inputs returned
    r_pc, r_args, r_ret, print_fun, r_alias,
    \* return_loc_neighbors and return_glob_neighbors: the call's position,
    \* the positions and values of the observations with the query, and what
    \* the search returns, and which search ran, on which tile
    n_pc, n_args, n_ret, n_op,
    \* MccdInputs.handle_mask: the call's position, its arguments, and the
    \* mask it returns with the stars as it leaves them
    h_pc, h_args, h_ret,
    \* interpolation_Pi: the call's position, its arguments and what it
    \* returns
    p_pc, p_args, p_ret,
    \* MomentInterpolator.__init__: the call's position, the moment_map it
    \* is given, and the fields moment_map, x_pos and y_pos of the instance
    g_pc, g_moment_map, g_self

mapperVars == <<m_pc, m_ccd, m_x, m_y, m_ret>>

batcherVars == <<b_pc, b_op, b_input, starcat_list, catalog_ids, num_catalogs>>

storedVars == <<star_list, position_list, mask_list, ccd_list, SNR_list, RA_list, DEC_list>>

assemblerVars == <<a_calls, a_idx, a_last, a_ret, storedVars>>

rejectorVars == <<r_pc, r_args, r_ret, print_fun, r_alias>>

neighborVars == <<n_pc, n_args, n_ret, n_op>>

maskVars == <<h_pc, h_args, h_ret>>

piVars == <<p_pc, p_args, p_ret>>

gridVars == <<g_pc, g_moment_map, g_self>>

vars ==
    <<mapperVars, batcherVars, assemblerVars, rejectorVars, neighborVars, maskVars, piVars,
      gridVars>>

\* Python's None.
None == "None"

(***************************************************************************)
(* Loc2Glob                                                                *)
(***************************************************************************)

\* Loc2Glob.__init__ defaults (the CFIS geometry).
x_gap == 70
y_gap == 425
x_npix == 2048
y_npix == 4612

\* How far outside 0..39 the tile ids of the mapper's inputs reach.
TileMargin == 2
\* The local coordinates tried are 1..MaxCoord and the last pixel.
MaxCoord == 2

CcdInputs == (0 - TileMargin)..(39 + TileMargin)
XInputs == (1..MaxCoord) \cup {x_npix}
YInputs == (1..MaxCoord) \cup {y_npix}

\* Python's None, as shift_coord returns it when no branch is taken.
NoShift == [none |-> TRUE, x |-> 0, y |-> 0]

Shift(dx, dy) == [none |-> FALSE, x |-> dx, y |-> dy]

flip_coord(ccd_n, x_coor, y_coor) ==
    IF ccd_n < 18 \/ ccd_n \in {36, 37}
    THEN <<x_npix - x_coor + 1, y_npix - y_coor + 1>>
    ELSE <<x_coor, y_coor>>

shift_coord_row3(ccd_n) ==
    IF ccd_n < 9 THEN Shift((ccd_n - 4) * (x_gap + x_npix), y_gap + y_npix)
    ELSE IF ccd_n < 18 THEN Shift((ccd_n - 13) * (x_gap + x_npix), 0)
    ELSE IF ccd_n < 27 THEN Shift((ccd_n - 22) * (x_gap + x_npix), (0 - 1) * (y_gap + y_npix))
    ELSE IF ccd_n < 36 THEN Shift((ccd_n - 31) * (x_gap + x_npix), (0 - 1) * (y_gap + y_npix))
    ELSE IF ccd_n < 37 THEN Shift((0 - 5) * (x_gap + x_npix), 0)
    ELSE IF ccd_n < 38 THEN Shift(5 * (x_gap + x_npix), 0)
    ELSE IF ccd_n < 39 THEN Shift((0 - 5) * (x_gap + x_npix), (0 - 1) * (y_gap + y_npix))
    ELSE IF ccd_n < 40 THEN Shift(5 * (x_gap + x_npix), (0 - 1) * (y_gap + y_npix))
    ELSE NoShift

shift_coord(ccd_n) ==
    IF ccd_n < 9 THEN Shift((ccd_n - 4) * (x_gap + x_npix), y_gap + y_npix)
    ELSE IF ccd_n < 18 THEN Shift((ccd_n - 13) * (x_gap + x_npix), 0)
    ELSE IF ccd_n < 27 THEN Shift((ccd_n - 22) * (x_gap + x_npix), (0 - 1) * (y_gap + y_npix))
    ELSE IF ccd_n < 36 THEN Shift((ccd_n - 31) * (x_gap + x_npix), (0 - 2) * (y_gap + y_npix))
    ELSE IF ccd_n < 37 THEN Shift((0 - 5) * (x_gap + x_npix), 0)
    ELSE IF ccd_n < 38 THEN Shift(5 * (x_gap + x_npix), 0)
    ELSE IF ccd_n < 39 THEN Shift((0 - 5) * (x_gap + x_npix), (0 - 1) * (y_gap + y_npix))
    ELSE IF ccd_n < 40 THEN Shift(5 * (x_gap + x_npix), (0 - 1) * (y_gap + y_npix))
    ELSE NoShift

\* The outcome of a call: a coordinate pair, or the TypeError that unpacking
\* shift_coord's None raises (line 99).
loc2glob_img_coord(ccd_n, x_coor, y_coor) ==
    LET f == flip_coord(ccd_n, x_coor, y_coor)
        s == shift_coord(ccd_n)
    IN  IF s.none
        THEN [status |-> "TypeError", gx |-> 0, gy |-> 0]
        ELSE [status |-> "ok", gx |-> f[1] + s.x, gy |-> f[2] + s.y]

NoRet == [status |-> "none", gx |-> 0, gy |-> 0]

MapperIdle ==
    /\ m_pc = "idle"
    /\ m_ccd = 0
    /\ m_x = 0
    /\ m_y = 0
    /\ m_ret = NoRet

InitMapperCall ==
    /\ m_pc = "call"
    /\ m_ccd \in CcdInputs
    /\ m_x \in XInputs
    /\ m_y \in YInputs
    /\ m_ret = NoRet

\* One call of Loc2Glob.loc2glob_img_coord on the chosen input.
ToGlobal ==
    /\ m_pc = "call"
    /\ m_ret' = loc2glob_img_coord(m_ccd, m_x, m_y)
    /\ m_pc' = "done"
    /\ UNCHANGED <<m_ccd, m_x, m_y>>
    /\ UNCHANGED <<batcherVars, assemblerVars, rejectorVars, neighborVars, maskVars, piVars, gridVars>>

(***************************************************************************)
(* Strings.  A Python str is a sequence of one-character strings.          *)
(***************************************************************************)

\* The code point of a character (ASCII).
Ord(c) ==
    CASE c = "-" -> 45 [] c = "." -> 46 [] c = "/" -> 47
      [] c = "0" -> 48 [] c = "1" -> 49 [] c = "2" -> 50 [] c = "3" -> 51
      [] c = "4" -> 52 [] c = "5" -> 53 [] c = "6" -> 54 [] c = "7" -> 55
      [] c = "8" -> 56 [] c = "9" -> 57 [] c = "_" -> 95
      [] c = "f" -> 102 [] c = "s" -> 115 [] c = "t" -> 116

\* a < b for two str: code point by code point, a proper prefix first.
RECURSIVE StrLess(_, _)
StrLess(a, b) ==
    IF b = <<>> THEN FALSE
    ELSE IF a = <<>> THEN TRUE
    ELSE IF Head(a) = Head(b) THEN StrLess(Tail(a), Tail(b))
    ELSE Ord(Head(a)) < Ord(Head(b))

\* str.split(sep) for a one-character sep: the pieces between the
\* separators, empty pieces included; "".split(sep) is [""].
RECURSIVE Split(_, _)
Split(str, sep) ==
    IF str = <<>> THEN << <<>> >>
    ELSE LET rest == Split(Tail(str), sep)
         IN  IF Head(str) = sep
             THEN << <<>> >> \o rest
             ELSE << <<Head(str)>> \o rest[1] >> \o Tail(rest)

\* int() of a str of decimal digits, as astype('int') gives it.
RECURSIVE StrToInt(_)
StrToInt(str) ==
    IF str = <<>> THEN 0
    ELSE 10 * StrToInt(SubSeq(str, 1, Len(str) - 1)) + (Ord(str[Len(str)]) - 48)

\* The elements of a set of str as a sorted list (list.sort, np.unique).
RECURSIVE SortedStrs(_)
SortedStrs(S) ==
    IF S = {} THEN <<>>
    ELSE LET least == CHOOSE a \in S : \A b \in S : a = b \/ StrLess(a, b)
         IN  <<least>> \o SortedStrs(S \ {least})

Range(seq) == {seq[i] : i \in DOMAIN seq}

(***************************************************************************)
(* MccdInputs: parsing the file names into one group per exposure          *)
(***************************************************************************)

\* MccdInputs.__init__ default.
separator == "-"

\* The outcome of parse_path: the two tokens, or the IndexError of
\* splitted_str[-2] when the name holds no separator before its first dot.
parse_path(path) ==
    LET my_path == Split(path, ".")[1]
        splitted_str == Split(my_path, separator)
        n == Len(splitted_str)
    IN  IF n < 2
        THEN [err |-> TRUE, starcat_id |-> <<>>, ccd_n |-> <<>>]
        ELSE [err |-> FALSE, starcat_id |-> splitted_str[n - 1], ccd_n |-> splitted_str[n]]

\* The rows (starcat_id, ccd_n, path) of complete_list.
CompleteList(paths) ==
    [i \in DOMAIN paths |->
        <<parse_path(paths[i]).starcat_id, parse_path(paths[i]).ccd_n, paths[i]>>]

RECURSIVE FirstOccurrences(_, _)
FirstOccurrences(complete_list, seen) ==
    IF complete_list = <<>> THEN <<>>
    ELSE IF Head(complete_list)[1] \in seen
         THEN FirstOccurrences(Tail(complete_list), seen)
         ELSE <<Head(complete_list)[1]>>
              \o FirstOccurrences(Tail(complete_list), seen \cup {Head(complete_list)[1]})

UniqueIdsUnsorted(complete_list) == FirstOccurrences(complete_list, {})

\* np.unique(complete_list[:, 0]): the distinct ids, sorted as str.
UniqueIds(complete_list) ==
    SortedStrs({complete_list[i][1] : i \in DOMAIN complete_list})

RowHasId(row, st_id) == row[1] = st_id

\* complete_list[indexes, :] for the boolean mask indexes of one id.
GroupOf(complete_list, st_id) ==
    SelectSeq(complete_list, LAMBDA row : RowHasId(row, st_id))

StarcatList(complete_list, ids) ==
    [it \in DOMAIN ids |-> GroupOf(complete_list, ids[it])]

\* What both parsers do with the list of paths: fail on the first name that
\* does not parse or on an empty list (np.array([]) has one axis only, so
\* complete_list[:, 0] raises IndexError), else store the groups.
GroupPaths(paths) ==
    IF paths = <<>> \/ \E i \in DOMAIN paths : parse_path(paths[i]).err
    THEN /\ b_pc' = "IndexError"
         /\ UNCHANGED <<starcat_list, catalog_ids, num_catalogs>>
    ELSE LET complete_list == CompleteList(paths)
             starcat_unique_ids == UniqueIds(complete_list)
         IN  /\ b_pc' = "done"
             /\ starcat_list' = StarcatList(complete_list, starcat_unique_ids)
             /\ num_catalogs' = Len(starcat_unique_ids)
             /\ catalog_ids' = starcat_unique_ids

\* parse_pipeline_input_list(input_list): the paths in the order given.
parse_pipeline_input_list ==
    /\ b_pc = "call"
    /\ b_op' = "pipeline"
    /\ GroupPaths(b_input)
    /\ UNCHANGED b_input
    /\ UNCHANGED <<mapperVars, assemblerVars, rejectorVars, neighborVars, maskVars, piVars, gridVars>>

\* parse_folder(folder_path, pattern): glob lists every matching file once,
\* in any order, and the list is sorted before it is parsed.
parse_folder ==
    /\ b_pc = "call"
    /\ Cardinality(Range(b_input)) = Len(b_input)
    /\ b_op' = "folder"
    /\ GroupPaths(SortedStrs(Range(b_input)))
    /\ UNCHANGED b_input
    /\ UNCHANGED <<mapperVars, assemblerVars, rejectorVars, neighborVars, maskVars, piVars, gridVars>>

\* The file names tried: an optional directory or pattern prefix, the
\* pattern, the exposure id, the CCD id and the extension.
MaxFiles == 3

Prefixes == {<<>>, <<"t", "-">>, <<".", "/">>}
ExposureIds == {<<"9">>, <<"1", "0">>}
CcdIds == {<<"0", "4">>, <<"2", "2">>}

Paths ==
    {pre \o <<"s", "-">> \o e \o <<"-">> \o c \o <<".", "f">> :
        pre \in Prefixes, e \in ExposureIds, c \in CcdIds}

PathLists == UNION {[1..n -> Paths] : n \in 0..MaxFiles}

BatcherIdle ==
    /\ b_pc = "idle"
    /\ b_op = None
    /\ b_input = <<>>
    /\ starcat_list = None
    /\ catalog_ids = None
    /\ num_catalogs = None

InitBatcherCall ==
    /\ b_pc = "call"
    /\ b_op = None
    /\ b_input \in PathLists
    /\ starcat_list = None
    /\ catalog_ids = None
    /\ num_catalogs = None

(***************************************************************************)
(* MccdInputs: assembling the catalogues of one exposure                   *)
(***************************************************************************)

\* MccdInputs.__init__ default (-1e5), and the value SExtractor gives a
\* masked pixel (-1e30 in the source's docstring; any value below the
\* threshold behaves alike).
mask_thresh == -100000
MaskedPixel == -1000000

\* A list that may be None.
NoList == [some |-> FALSE, v |-> <<>>]
Some(list) == [some |-> TRUE, v |-> list]

\* What fits.open(path)[2].data holds for a readable catalogue of two
\* stars; the optional columns are there or not as the reference says.
\* The first star has a masked pixel and sits on the first pixel of the CCD,
\* the second on the last.
fits_data(ref) ==
    [XWIN_IMAGE |-> <<1, x_npix>>,
     YWIN_IMAGE |-> <<2, y_npix>>,
     VIGNET |-> << <<MaskedPixel, 5>>, <<3, 4>> >>,
     SNR_WIN |-> IF ref.hasSNR THEN Some(<<10, 20>>) ELSE NoList,
     XWIN_WORLD |-> IF ref.hasRA THEN Some(<<101, 102>>) ELSE NoList,
     YWIN_WORLD |-> IF ref.hasDEC THEN Some(<<201, 202>>) ELSE NoList]

\* handle_mask: the masks, and the stars as apply_to_stars leaves them.
handle_mask_masks_le(stars, thresh) ==
    [n \in DOMAIN stars |->
        [p \in DOMAIN stars[n] |-> IF stars[n][p] <= thresh THEN 0 ELSE 1]]

handle_mask_masks(stars, thresh) ==
    [n \in DOMAIN stars |->
        [p \in DOMAIN stars[n] |-> IF stars[n][p] < thresh THEN 0 ELSE 1]]

handle_mask_stars(stars, thresh, apply_to_stars) ==
    [n \in DOMAIN stars |->
        [p \in DOMAIN stars[n] |->
            IF apply_to_stars /\ stars[n][p] < thresh THEN 0 ELSE stars[n][p]]]

\* Lines 402-406: KeyError when the column is missing, AttributeError when
\* SNR_list is None already; either way SNR_list becomes None.
AppendSNRRestart(lst, data) ==
    IF data.SNR_WIN.some
    THEN Some((IF lst.some THEN lst.v ELSE <<>>) \o <<data.SNR_WIN.v>>)
    ELSE Some(<<>>)

AppendSNR(lst, data) ==
    IF data.SNR_WIN.some /\ lst.some
    THEN Some(lst.v \o <<data.SNR_WIN.v>>)
    ELSE NoList

\* Lines 408-413: RA_list is appended to before YWIN_WORLD is looked up, and
\* any exception sets both lists to None.
AppendRADEC(ra, dec, data) ==
    IF ra.some /\ dec.some /\ data.XWIN_WORLD.some /\ data.YWIN_WORLD.some
    THEN [RA |-> Some(ra.v \o <<data.XWIN_WORLD.v>>),
          DEC |-> Some(dec.v \o <<data.YWIN_WORLD.v>>)]
    ELSE [RA |-> NoList, DEC |-> NoList]

EmptyLists ==
    [star_list |-> Some(<<>>), position_list |-> Some(<<>>),
     mask_list |-> Some(<<>>), ccd_list |-> Some(<<>>),
     SNR_list |-> Some(<<>>), RA_list |-> Some(<<>>), DEC_list |-> Some(<<>>)]

NoLists ==
    [star_list |-> NoList, position_list |-> NoList,
     mask_list |-> NoList, ccd_list |-> NoList,
     SNR_list |-> NoList, RA_list |-> NoList, DEC_list |-> NoList]

\* One pass of the loop body (lines 386-413) over a readable catalogue.
PrepBody(acc, ccd, data) ==
    LET positions ==
            [n \in DOMAIN data.XWIN_IMAGE |->
                LET g == loc2glob_img_coord(ccd, data.XWIN_IMAGE[n], data.YWIN_IMAGE[n])
                IN  <<g.gx, g.gy>>]
        stars == handle_mask_stars(data.VIGNET, mask_thresh, TRUE)
        masks == handle_mask_masks(data.VIGNET, mask_thresh)
        radec == AppendRADEC(acc.RA_list, acc.DEC_list, data)
    IN  [star_list |-> Some(acc.star_list.v \o <<stars>>),
         position_list |-> Some(acc.position_list.v \o <<positions>>),
         mask_list |-> Some(acc.mask_list.v \o <<masks>>),
         ccd_list |-> Some(acc.ccd_list.v \o <<ccd>>),
         SNR_list |-> AppendSNR(acc.SNR_list, data),
         RA_list |-> radec.RA,
         DEC_list |-> radec.DEC]

\* The loop of prep_mccd_inputs from row it on: the lists built, or the
\* exception that ends the call (fits.open on an unreadable catalogue, the
\* TypeError of the mapper on a CCD id of 40 or more) with the local lists
\* as they were then.
RECURSIVE PrepLoop(_, _, _)
PrepLoop(starcat_array, it, acc) ==
    IF it > Len(starcat_array) THEN [status |-> "done", lists |-> acc]
    ELSE LET ref == starcat_array[it][3]
             ccd == StrToInt(starcat_array[it][2])
         IN  IF ~ref.readable
             THEN [status |-> "PayloadReadError", lists |-> acc]
             ELSE IF \E n \in DOMAIN fits_data(ref).XWIN_IMAGE :
                        loc2glob_img_coord(ccd, fits_data(ref).XWIN_IMAGE[n],
                                           fits_data(ref).YWIN_IMAGE[n]).status # "ok"
             THEN [status |-> "TypeError", lists |-> acc]
             ELSE PrepLoop(starcat_array, it + 1, PrepBody(acc, ccd, fits_data(ref)))

prep_mccd_inputs_outcome(starcat_array) == PrepLoop(starcat_array, 1, EmptyLists)

\* Lines 415-421: the fields are assigned after the loop only.
StoredAfterAnyOutcome(outcome, old) == outcome.lists

StoredAfter(outcome, old) ==
    IF outcome.status = "done" THEN outcome.lists ELSE old

Stored ==
    [star_list |-> star_list, position_list |-> position_list,
     mask_list |-> mask_list, ccd_list |-> ccd_list,
     SNR_list |-> SNR_list, RA_list |-> RA_list, DEC_list |-> DEC_list]

\* get_inputs(catalog_id) for the next exposure asked for: prep_mccd_inputs
\* on its group.
get_inputs ==
    /\ a_idx \in DOMAIN a_calls
    /\ LET outcome == prep_mccd_inputs_outcome(a_calls[a_idx])
           stored == StoredAfter(outcome, Stored)
       IN  /\ a_last' = outcome.status
           /\ a_ret' = IF outcome.status = "done" THEN outcome.lists ELSE NoLists
           /\ star_list' = stored.star_list
           /\ position_list' = stored.position_list
           /\ mask_list' = stored.mask_list
           /\ ccd_list' = stored.ccd_list
           /\ SNR_list' = stored.SNR_list
           /\ RA_list' = stored.RA_list
           /\ DEC_list' = stored.DEC_list
    /\ a_idx' = a_idx + 1
    /\ UNCHANGED a_calls
    /\ UNCHANGED <<mapperVars, batcherVars, rejectorVars, neighborVars, maskVars, piVars, gridVars>>

\* The exposures tried: at most MaxCalls calls of get_inputs, on groups of
\* at most MaxRecords catalogues in all.
MaxCalls == 2
MaxRecords == 2

PayloadRefs ==
    {[readable |-> FALSE, hasSNR |-> FALSE, hasRA |-> FALSE, hasDEC |-> FALSE]}
    \cup [readable : {TRUE}, hasSNR : BOOLEAN, hasRA : BOOLEAN, hasDEC : BOOLEAN]

\* The CCD ids of the catalogues of a group, in the group's order.
GroupCcds == << <<"0", "4">>, <<"2", "2">>, <<"3", "6">> >>

RECURSIVE SumTo(_, _)
SumTo(lens, k) == IF k = 0 THEN 0 ELSE lens[k] + SumTo(lens, k - 1)

\* The group sizes of at most MaxCalls calls on n catalogues in all.
GroupSizes(n) ==
    {lens \in UNION {[1..k -> 0..n] : k \in 1..MaxCalls} : SumTo(lens, Len(lens)) = n}

\* The starcat_array of each call: rows (starcat_id, ccd_n, path).
StarcatArrays(refs, lens) ==
    [i \in DOMAIN lens |->
        [it \in 1..lens[i] |->
            <<<<"9">>, GroupCcds[((it - 1) % Len(GroupCcds)) + 1],
              refs[SumTo(lens, i - 1) + it]>>]]

AssemblerIdle ==
    /\ a_calls = <<>>
    /\ a_idx = 1
    /\ a_last = "none"
    /\ a_ret = NoLists
    /\ star_list = NoList
    /\ position_list = NoList
    /\ mask_list = NoList
    /\ ccd_list = NoList
    /\ SNR_list = NoList
    /\ RA_list = NoList
    /\ DEC_list = NoList

InitAssemblerCalls ==
    /\ \E n \in 0..MaxRecords :
          \E refs \in [1..n -> PayloadRefs] :
              \E lens \in GroupSizes(n) : a_calls = StarcatArrays(refs, lens)
    /\ a_idx = 1
    /\ a_last = "none"
    /\ a_ret = NoLists
    /\ star_list = NoList
    /\ position_list = NoList
    /\ mask_list = NoList
    /\ ccd_list = NoList
    /\ SNR_list = NoList
    /\ RA_list = NoList
    /\ DEC_list = NoList

(***************************************************************************)
(* MccdInputs.handle_mask, called on its own                               *)
(***************************************************************************)
handle_mask ==
    /\ h_pc = "call"
    /\ h_ret' = [mask |-> handle_mask_masks(h_args.stars, h_args.thresh),
                 stars |-> handle_mask_stars(h_args.stars, h_args.thresh,
                                             h_args.apply_to_stars)]
    /\ h_pc' = "returned"
    /\ UNCHANGED h_args
    /\ UNCHANGED <<mapperVars, batcherVars, assemblerVars, rejectorVars, neighborVars, piVars, gridVars>>

\* The stamps tried: at most MaxStamps stamps of two pixels, a pixel being
\* masked by SExtractor, just below the default threshold, on it, or an
\* ordinary value.
MaxStamps == 2

PixelValues == {MaskedPixel, mask_thresh - 1, mask_thresh, 0, 5}

Thresholds == {mask_thresh, 0}

NoMaskCall == [stars |-> <<>>]

NoMask == [mask |-> <<>>, stars |-> <<>>]

MaskIdle ==
    /\ h_pc = "idle"
    /\ h_args = NoMaskCall
    /\ h_ret = NoMask

InitMaskCall ==
    /\ h_pc = "call"
    /\ h_ret = NoMask
    /\ \E n \in 0..MaxStamps : \E stars \in [1..n -> [1..2 -> PixelValues]] :
       \E thresh \in Thresholds : \E apply_to_stars \in BOOLEAN :
          h_args = [stars |-> stars, thresh |-> thresh,
                    apply_to_stars |-> apply_to_stars]

(***************************************************************************)
(* MccdInputs.outlier_rejection                                            *)
(*                                                                         *)
(* A star stamp is a record of the identity of the observation (uid) and   *)
(* of what hsm.FindAdaptiveMom measures on it: g1, g2, 2*sigma^2 and the   *)
(* error flag.  The entries of the other lists carry the uid of their      *)
(* observation.  Indices start at 1 where Python's start at 0.  The        *)
(* threshold comparisons are exact: the measures are integers and          *)
(* |v| > sigma*std + mean is decided without taking the square root.       *)
(***************************************************************************)

RECURSIVE Concatenate(_)
Concatenate(lists) ==
    IF lists = <<>> THEN <<>> ELSE Head(lists) \o Concatenate(Tail(lists))

RECURSIVE SeqSum(_)
SeqSum(vals) == IF vals = <<>> THEN 0 ELSE Head(vals) + SeqSum(Tail(vals))

Abs(v) == IF v < 0 THEN 0 - v ELSE v

\* abs(vals) > shape_std_max * np.std(vals) + np.mean(vals), element by
\* element.  With mean = S/n and std = sqrt(n*Q - S*S)/n, for S the sum and
\* Q the sum of squares, the comparison is
\* n*abs(v) - S > shape_std_max * sqrt(n*Q - S*S).
AboveThreshold(vals, shape_std_max) ==
    LET n == Len(vals)
        S == SeqSum(vals)
        Q == SeqSum([k \in DOMAIN vals |-> vals[k] * vals[k]])
        rhs == shape_std_max * shape_std_max * (n * Q - S * S)
    IN  [g \in DOMAIN vals |->
            /\ n * Abs(vals[g]) - S > 0
            /\ (n * Abs(vals[g]) - S) * (n * Abs(vals[g]) - S) > rhs]

\* Lines 533-539: a row (g1, g2, 2*sigma^2, error flag) per star.
StarShapes(all_stars) ==
    [g \in DOMAIN all_stars |->
        <<all_stars[g].e1, all_stars[g].e2, all_stars[g].r2, all_stars[g].err>>]

ShapeColumn(star_shapes, c) == [g \in DOMAIN star_shapes |-> star_shapes[g][c]]

bad_stars_or_failed(star_shapes, shape_std_max) ==
    LET R2_bad_stars == AboveThreshold(ShapeColumn(star_shapes, 3), shape_std_max)
        e2_bad_stars == AboveThreshold(ShapeColumn(star_shapes, 2), shape_std_max)
        e1_bad_stars == AboveThreshold(ShapeColumn(star_shapes, 1), shape_std_max)
    IN  [g \in DOMAIN star_shapes |->
            e1_bad_stars[g] \/ e2_bad_stars[g] \/ R2_bad_stars[g] \/ star_shapes[g][4] # 0]

\* Lines 541-552.
bad_stars(star_shapes, shape_std_max) ==
    LET R2_bad_stars == AboveThreshold(ShapeColumn(star_shapes, 3), shape_std_max)
        e2_bad_stars == AboveThreshold(ShapeColumn(star_shapes, 2), shape_std_max)
        e1_bad_stars == AboveThreshold(ShapeColumn(star_shapes, 1), shape_std_max)
    IN  [g \in DOMAIN star_shapes |->
            e1_bad_stars[g] \/ e2_bad_stars[g] \/ R2_bad_stars[g]]

\* Lines 565-573: the rows (glob_id, star_id, ccd_id), tile by tile.
RECURSIVE IdxRefFrom(_, _, _)
IdxRefFrom(stars_list, ccd_id, glob_id) ==
    IF ccd_id > Len(stars_list) THEN <<>>
    ELSE [star_id \in DOMAIN stars_list[ccd_id] |-> <<glob_id + star_id - 1, star_id, ccd_id>>]
         \o IdxRefFrom(stars_list, ccd_id + 1, glob_id + Len(stars_list[ccd_id]))

RECURSIVE IdxRefNoReset(_, _, _)
IdxRefNoReset(stars_list, ccd_id, glob_id) ==
    IF ccd_id > Len(stars_list) THEN <<>>
    ELSE [star_id \in DOMAIN stars_list[ccd_id] |->
             <<glob_id + star_id - 1, glob_id + star_id - 1, ccd_id>>]
         \o IdxRefNoReset(stars_list, ccd_id + 1, glob_id + Len(stars_list[ccd_id]))

idx_ref_no_reset(stars_list) == IdxRefNoReset(stars_list, 1, 1)

idx_ref(stars_list) == IdxRefFrom(stars_list, 1, 1)

\* Lines 559 and 576-579.
erase_masks(stars_list, bad) ==
    LET ref == idx_ref(stars_list)
    IN  [t \in DOMAIN stars_list |->
            [i \in DOMAIN stars_list[t] |->
                \E bad_id \in DOMAIN bad :
                    bad[bad_id] /\ ref[bad_id][3] = t /\ ref[bad_id][2] = i]]

\* list[~erase] for one tile (lines 582-590).
RECURSIVE Keep(_, _)
Keep(list, erase) ==
    IF list = <<>> THEN <<>>
    ELSE (IF Head(erase) THEN <<>> ELSE <<Head(list)>>) \o Keep(Tail(list), Tail(erase))

KeepAll(lists, erase) == [t \in DOMAIN lists |-> Keep(lists[t], erase[t])]

KeepOption(lists, erase) ==
    IF lists.some THEN Some(KeepAll(lists.v, erase)) ELSE NoList

\* What a call returns on the arguments args (its print_fun calls apart).
\* np.concatenate of no tile raises ValueError; with no star at all
\* star_shapes is a one-axis empty array and star_shapes[:, 2] raises
\* IndexError.
outlier_rejection_outcome(args) ==
    IF args.star_list = <<>> THEN [status |-> "ValueError"]
    ELSE IF Concatenate(args.star_list) = <<>> THEN [status |-> "IndexError"]
    ELSE LET star_shapes == StarShapes(Concatenate(args.star_list))
             bad == bad_stars(star_shapes, args.shape_std_max)
             erase == erase_masks(args.star_list, bad)
         IN  [status |-> "done",
              star_list |-> KeepAll(args.star_list, erase),
              pos_list |-> KeepAll(args.pos_list, erase),
              mask_list |-> KeepAll(args.mask_list, erase),
              ccd_list |-> args.ccd_list,
              SNR_list |-> KeepOption(args.SNR_list, erase),
              RA_list |-> KeepOption(args.RA_list, erase),
              DEC_list |-> KeepOption(args.DEC_list, erase),
              erase_masks |-> erase]

\* The calls of print_fun (lines 555, 556 and 577) are not guarded: what
\* print_fun raises leaves outlier_rejection before it erases or returns
\* anything.  A print_fun may print, raise on every call, or raise on the
\* 'Outlier: ...' messages only, of which there is one per flagged star.
PrintFuns == {"prints", "raises", "raises_on_str"}

PrintFunRaises(outcome, fun) ==
    \/ fun = "raises"
    \/ /\ fun = "raises_on_str"
       /\ \E t \in DOMAIN outcome.erase_masks :
              \E i \in DOMAIN outcome.erase_masks[t] : outcome.erase_masks[t][i]

Reported(outcome, fun) ==
    IF outcome.status = "done" /\ PrintFunRaises(outcome, fun)
    THEN [status |-> "print_fun raised"]
    ELSE outcome

\* Lines 581-590 overwrite the entries of the lists they are given.  The
\* lists prep_mccd_inputs returns are the lists it has stored in the
\* instance (lines 415-423), so that a call on them overwrites the entries
\* of the instance's lists; ccd_list is never written to.
OverwrittenBy(ret) ==
    [star_list |-> Some(ret.star_list),
     position_list |-> Some(ret.pos_list),
     mask_list |-> Some(ret.mask_list),
     ccd_list |-> ccd_list,
     SNR_list |-> ret.SNR_list,
     RA_list |-> ret.RA_list,
     DEC_list |-> ret.DEC_list]

outlier_rejection ==
    /\ r_pc = "call"
    /\ LET ret == Reported(outlier_rejection_outcome(r_args), print_fun)
       IN  /\ r_ret' = ret
           /\ IF r_alias /\ ret.status = "done"
              THEN /\ a_ret' = OverwrittenBy(ret)
                   /\ star_list' = OverwrittenBy(ret).star_list
                   /\ position_list' = OverwrittenBy(ret).position_list
                   /\ mask_list' = OverwrittenBy(ret).mask_list
                   /\ ccd_list' = OverwrittenBy(ret).ccd_list
                   /\ SNR_list' = OverwrittenBy(ret).SNR_list
                   /\ RA_list' = OverwrittenBy(ret).RA_list
                   /\ DEC_list' = OverwrittenBy(ret).DEC_list
              ELSE UNCHANGED <<a_ret, storedVars>>
    /\ r_pc' = "returned"
    /\ UNCHANGED <<r_args, print_fun, r_alias>>
    /\ UNCHANGED <<a_calls, a_idx, a_last>>
    /\ UNCHANGED <<mapperVars, batcherVars, neighborVars, maskVars, piVars, gridVars>>

\* The batches tried: MaxTiles tiles holding at most MaxObs stars in all.
MaxTiles == 2
MaxObs == 3

\* The measures of a star: every pair of g1 and g2 values with an ordinary
\* size, and a larger star; or two g1 values on a star the estimator did or
\* did not fail on.
Shapes ==
    [e1 : {-1, 1, 10}, e2 : {-1, 0}, r2 : {1}, err : {0}]
    \cup {[e1 |-> 1, e2 |-> 0, r2 |-> 3, err |-> 0]}

PlainShapes == [e1 : {1, 10}, e2 : {0}, r2 : {1}, err : {0, 1}]

Sigmas == {1, 5}

TileSizes(n) == {lens \in [1..MaxTiles -> 0..n] : SumTo(lens, MaxTiles) = n}

\* The list of tiles of a per-star list flat, cut at the tile sizes lens.
PerTile(flat, lens) ==
    [t \in DOMAIN lens |-> [i \in 1..lens[t] |-> flat[SumTo(lens, t - 1) + i]]]

RejectArgs(shapes, lens, sigma, withSNR, withRADEC) ==
    LET uids == [g \in DOMAIN shapes |-> g]
    IN  [star_list |->
             PerTile([g \in DOMAIN shapes |->
                         [uid |-> g, e1 |-> shapes[g].e1, e2 |-> shapes[g].e2,
                          r2 |-> shapes[g].r2, err |-> shapes[g].err]], lens),
         pos_list |-> PerTile(uids, lens),
         mask_list |-> PerTile(uids, lens),
         ccd_list |-> [t \in DOMAIN lens |-> t],
         SNR_list |-> IF withSNR THEN Some(PerTile(uids, lens)) ELSE NoList,
         RA_list |-> IF withRADEC THEN Some(PerTile(uids, lens)) ELSE NoList,
         DEC_list |-> IF withRADEC THEN Some(PerTile(uids, lens)) ELSE NoList,
         shape_std_max |-> sigma]

NoArgs == [star_list |-> <<>>]

NoOutcome == [status |-> "none"]

RejectorIdle ==
    /\ r_pc = "idle"
    /\ r_args = NoArgs
    /\ r_ret = NoOutcome
    /\ print_fun = "prints"
    /\ r_alias = FALSE

\* Every shape with all the optional lists, or every combination of the
\* optional lists with the plain shapes; every print_fun with the plain
\* shapes and all the lists.
InitRejectorCall ==
    /\ r_pc = "call"
    /\ r_ret = NoOutcome
    /\ \E n \in 0..MaxObs : \E lens \in TileSizes(n) : \E sigma \in Sigmas :
          \/ \E shapes \in [1..n -> Shapes] :
                /\ r_args = RejectArgs(shapes, lens, sigma, TRUE, TRUE)
                /\ print_fun = "prints"
          \/ \E shapes \in [1..n -> PlainShapes] : \E withSNR, withRADEC \in BOOLEAN :
                /\ r_args = RejectArgs(shapes, lens, sigma, withSNR, withRADEC)
                /\ print_fun \in IF withSNR /\ withRADEC THEN PrintFuns ELSE {"prints"}

(***************************************************************************)
(* return_loc_neighbors and return_glob_neighbors                          *)
(*                                                                         *)
(* Positions are pairs of integers and a value is the identity of its      *)
(* observation.  np.linalg.norm is compared through its square, which      *)
(* orders the same.  np.argsort with its default kind is not a stable      *)
(* sort: it returns one of the orders that sort the distances, any of them *)
(* where distances tie, and the same one each time it is asked.            *)
(***************************************************************************)
SqNorm(p, q) == (p[1] - q[1]) * (p[1] - q[1]) + (p[2] - q[2]) * (p[2] - q[2])

Norms(obs_pos, new_pos) == [i \in DOMAIN obs_pos |-> SqNorm(obs_pos[i], new_pos)]

\* The orders that sort the distances the wrong way round.
argsort_descending(distances) ==
    {order \in [DOMAIN distances -> DOMAIN distances] :
        /\ \A i, j \in DOMAIN distances : i # j => order[i] # order[j]
        /\ \A i \in DOMAIN distances :
              i < Len(distances) => distances[order[i]] >= distances[order[i + 1]]}

argsort(distances) ==
    {order \in [DOMAIN distances -> DOMAIN distances] :
        /\ \A i, j \in DOMAIN distances : i # j => order[i] # order[j]
        /\ \A i \in DOMAIN distances :
              i < Len(distances) => distances[order[i]] <= distances[order[i + 1]]}

\* s[:n] for n >= 0
Slice(s, n) == SubSeq(s, 1, IF n < Len(s) THEN n ELSE Len(s))

return_loc_neighbors_outcome(new_pos, obs_pos, vals, n_neighbors, order) ==
    LET idxs == Slice(order, n_neighbors)
    IN  [status |-> "done",
         values |-> [i \in DOMAIN idxs |-> vals[idxs[i]]],
         positions |-> [i \in DOMAIN idxs |-> obs_pos[idxs[i]]]]

\* The columns of distances: the norm, the tile and the index in the tile.
DistList(new_pos, obs_pos_list) ==
    [t \in DOMAIN obs_pos_list |->
        [i \in DOMAIN obs_pos_list[t] |->
            [d |-> SqNorm(obs_pos_list[t][i], new_pos), ccd_n |-> t, idx |-> i]]]

\* The loops over range(n_neighbors) index sort_idxs past its end when
\* n_neighbors is more than the observations there are.
GatherRange(n_neighbors) == 1..n_neighbors

return_glob_neighbors_outcome(new_pos, obs_pos_list, val_list, n_neighbors, order) ==
    LET distances == Concatenate(DistList(new_pos, obs_pos_list))
        sort_idxs == Slice(order, n_neighbors)
    IN  IF \E it \in GatherRange(n_neighbors) : it \notin DOMAIN sort_idxs
        THEN [status |-> "IndexError"]
        ELSE [status |-> "done",
              values |-> [it \in GatherRange(n_neighbors) |->
                  val_list[distances[sort_idxs[it]].ccd_n][distances[sort_idxs[it]].idx]],
              positions |-> [it \in GatherRange(n_neighbors) |->
                  obs_pos_list[distances[sort_idxs[it]].ccd_n][distances[sort_idxs[it]].idx]]]

\* A search within the tile ccd of the observations.
return_loc_neighbors ==
    /\ n_pc = "call"
    /\ \E ccd \in DOMAIN n_args.obs_pos_list :
       \E order \in argsort(Norms(n_args.obs_pos_list[ccd], n_args.new_pos)) :
          /\ n_ret' = return_loc_neighbors_outcome(n_args.new_pos,
                          n_args.obs_pos_list[ccd], n_args.val_list[ccd],
                          n_args.n_neighbors, order)
          /\ n_op' = [fn |-> "loc", ccd |-> ccd]
    /\ n_pc' = "returned"
    /\ UNCHANGED n_args
    /\ UNCHANGED <<mapperVars, batcherVars, assemblerVars, rejectorVars, maskVars, piVars, gridVars>>

\* A search across the tiles; np.concatenate refuses an empty list of tiles.
return_glob_neighbors ==
    /\ n_pc = "call"
    /\ IF n_args.obs_pos_list = <<>>
       THEN n_ret' = [status |-> "ValueError"]
       ELSE \E order \in argsort(Norms(Concatenate(n_args.obs_pos_list), n_args.new_pos)) :
               n_ret' = return_glob_neighbors_outcome(n_args.new_pos,
                            n_args.obs_pos_list, n_args.val_list,
                            n_args.n_neighbors, order)
    /\ n_op' = [fn |-> "glob"]
    /\ n_pc' = "returned"
    /\ UNCHANGED n_args
    /\ UNCHANGED <<mapperVars, batcherVars, assemblerVars, rejectorVars, maskVars, piVars, gridVars>>

\* The searches tried: at most MaxNbTiles tiles holding at most MaxNbObs
\* observations in all, and up to MaxK neighbours asked for.
MaxNbTiles == 2
MaxNbObs == 3
MaxK == 4

\* Two of the positions are as far from the first query as each other.
ObsPositions == {<<0, 0>>, <<1, 0>>, <<0, 1>>, <<2, 0>>}

NewPositions == {<<0, 0>>, <<2, 0>>}

NbTileSizes(tiles, n) == {lens \in [1..tiles -> 0..n] : SumTo(lens, tiles) = n}

NeighborArgs(new_pos, flat_pos, lens, n_neighbors) ==
    [new_pos |-> new_pos,
     obs_pos_list |-> PerTile(flat_pos, lens),
     val_list |-> PerTile([g \in DOMAIN flat_pos |-> g], lens),
     n_neighbors |-> n_neighbors]

NoSearch == [obs_pos_list |-> <<>>]

NoNeighbors == [status |-> "none"]

NoOp == [fn |-> "none"]

NeighborIdle ==
    /\ n_pc = "idle"
    /\ n_args = NoSearch
    /\ n_ret = NoNeighbors
    /\ n_op = NoOp

InitNeighborCall ==
    /\ n_pc = "call"
    /\ n_ret = NoNeighbors
    /\ n_op = NoOp
    /\ \E tiles \in 0..MaxNbTiles : \E n \in 0..MaxNbObs :
       \E lens \in NbTileSizes(tiles, n) : \E flat_pos \in [1..n -> ObsPositions] :
       \E new_pos \in NewPositions : \E n_neighbors \in 0..MaxK :
          n_args = NeighborArgs(new_pos, flat_pos, lens, n_neighbors)

(***************************************************************************)
(* interpolation_Pi                                                        *)
(*                                                                         *)
(* The entries of the matrices are products of a ratio of integers and the *)
(* square root of one: [a, b, p, q] is (a / b) * sqrt(p / q) with b, p and *)
(* q positive, so that the two divisions are exact and equality is decided *)
(* on integers.  A row whose norm is 0 holds zeros only and numpy divides  *)
(* it to NaN with a warning.                                               *)
(***************************************************************************)
NaN == [nan |-> TRUE, a |-> 0, b |-> 1, p |-> 1, q |-> 1]

Num(a) == [nan |-> FALSE, a |-> a, b |-> 1, p |-> 1, q |-> 1]

\* x / sqrt(sq)
DivideBySqrt(x, sq) ==
    IF x.nan \/ sq = 0 THEN NaN ELSE [x EXCEPT !.q = x.q * sq]

\* x / y
Divide(x, y) ==
    IF x.nan \/ y.nan \/ y.a = 0 THEN NaN
    ELSE [nan |-> FALSE,
          a |-> IF y.a < 0 THEN 0 - x.a * y.b ELSE x.a * y.b,
          b |-> x.b * Abs(y.a),
          p |-> x.p * y.q,
          q |-> x.q * y.p]

NumEq(x, y) ==
    IF x.nan \/ y.nan THEN x.nan /\ y.nan
    ELSE /\ (x.a > 0) = (y.a > 0)
         /\ (x.a < 0) = (y.a < 0)
         /\ (x.a * y.b) * (x.a * y.b) * x.p * y.q = (y.a * x.b) * (y.a * x.b) * y.p * x.q

n_comp_glob(d_comp_glob) == ((d_comp_glob + 1) * (d_comp_glob + 2)) \div 2

RECURSIVE Power(_, _)
Power(base, exponent) == IF exponent = 0 THEN 1 ELSE base * Power(base, exponent - 1)

\* mccd_rca.utils.poly_pos(pos, max_degree, normalice=False, center=False):
\* a row per monomial of total degree max_degree at most, the constant first
\* and then, degree by degree, x^(d-p) * y^p for p = 0..d; a column per
\* position.
DegreeOfRow(row) == CHOOSE d \in 0..row : n_comp_glob(d - 1) < row /\ row <= n_comp_glob(d)

MonomialAt(row, pos) ==
    LET d == DegreeOfRow(row)
        yp == row - n_comp_glob(d - 1) - 1
    IN  Power(pos[1], d - yp) * Power(pos[2], yp)

poly_pos(pos, max_degree) ==
    [row \in 1..n_comp_glob(max_degree) |->
        [j \in DOMAIN pos |-> MonomialAt(row, pos[j])]]

RECURSIVE SumSquares(_)
SumSquares(values) ==
    IF values = <<>> THEN 0 ELSE Head(values) * Head(values) + SumSquares(Tail(values))

\* What the norm of row it is the square root of, summed over the first
\* tile only.
sum_vals_first_tile(Pi, it) == SumSquares(Pi[1][it])

\* sum_vals[it] before its square root is taken (lines 753-755): the sum
\* over every CCD of the squares of row it.
RECURSIVE SumOverCcds(_, _, _)
SumOverCcds(Pi, it, it_ccd) ==
    IF it_ccd > Len(Pi) THEN 0
    ELSE SumSquares(Pi[it_ccd][it]) + SumOverCcds(Pi, it, it_ccd + 1)

sum_vals(Pi, it) == SumOverCcds(Pi, it, 1)

\* interp_Pi[0][0, 0] is out of bounds with no position list or with no
\* position in the first one.
interpolation_Pi_outcome(position_list_, d_comp_glob) ==
    LET raw == [t \in DOMAIN position_list_ |-> poly_pos(position_list_[t], d_comp_glob)]
        normed == [t \in DOMAIN raw |->
                      [it \in DOMAIN raw[t] |->
                          [j \in DOMAIN raw[t][it] |->
                              DivideBySqrt(Num(raw[t][it][j]), sum_vals(raw, it))]]]
    IN  IF position_list_ = <<>> \/ position_list_[1] = <<>>
        THEN [status |-> "IndexError"]
        ELSE LET norm_val == normed[1][1][1]
             IN  [status |-> "done",
                  interp_Pi |->
                      [t \in DOMAIN normed |->
                          [it \in DOMAIN normed[t] |->
                              [j \in DOMAIN normed[t][it] |->
                                  Divide(normed[t][it][j], norm_val)]]]]

interpolation_Pi ==
    /\ p_pc = "call"
    /\ p_ret' = interpolation_Pi_outcome(p_args.position_list, p_args.d_comp_glob)
    /\ p_pc' = "returned"
    /\ UNCHANGED p_args
    /\ UNCHANGED <<mapperVars, batcherVars, assemblerVars, rejectorVars, neighborVars, maskVars, gridVars>>

\* The calls tried: at most MaxPiTiles tiles holding at most MaxPiObs
\* positions in all, and degrees up to MaxDegree.
MaxPiTiles == 2
MaxPiObs == 3
MaxDegree == 2

PiPositions == {<<0, 0>>, <<1, 0>>, <<1, 2>>, <<-2, 1>>}

NoPiCall == [position_list |-> <<>>]

NoPi == [status |-> "none"]

PiIdle ==
    /\ p_pc = "idle"
    /\ p_args = NoPiCall
    /\ p_ret = NoPi

InitPiCall ==
    /\ p_pc = "call"
    /\ p_ret = NoPi
    /\ \E tiles \in 0..MaxPiTiles : \E n \in 0..MaxPiObs :
       \E lens \in NbTileSizes(tiles, n) : \E flat_pos \in [1..n -> PiPositions] :
       \E d_comp_glob \in 0..MaxDegree :
          p_args = [position_list |-> PerTile(flat_pos, lens),
                    d_comp_glob |-> d_comp_glob]

(***************************************************************************)
(* MomentInterpolator.__init__                                             *)
(*                                                                         *)
(* A map is a sequence over the CCDs of x_grid sequences of y_grid cells;  *)
(* the CCD ccd_it of the source is at ccd_it + 1 and the cell (it_x, it_y) *)
(* at (it_x + 1, it_y + 1).  The grids tried divide the CCD into bins      *)
(* whose half is a whole number of pixels, so that np.linspace is exact.   *)
(***************************************************************************)
Shape(map) ==
    [n_ccd |-> Len(map),
     x_grid |-> IF map = <<>> THEN 0 ELSE Len(map[1]),
     y_grid |-> IF map = <<>> \/ map[1] = <<>> THEN 0 ELSE Len(map[1][1])]

\* Line 791 without the CCDs 36 and 37.
KeepsOrderFirstRows(ccd_it) == ccd_it < 18

\* Line 791: the CCDs whose cells keep their indices.
KeepsOrder(ccd_it) == ccd_it < 18 \/ ccd_it \in {36, 37}

\* Lines 791-799: where the cell (it_x, it_y) of CCD ccd_it is stored.
StoredAt(ccd_it, it_x, it_y, shape) ==
    IF KeepsOrder(ccd_it) THEN <<it_x, it_y>>
    ELSE <<shape.x_grid - it_x - 1, shape.y_grid - it_y - 1>>

\* self.moment_map after the loops of lines 787-801 over np.zeros: a cell
\* no iteration stores to stays 0, one stored to several times keeps the
\* last.
ReorderedMap(moment_map) ==
    LET shape == Shape(moment_map)
    IN  [t \in 1..shape.n_ccd |->
            [x \in 1..shape.x_grid |->
                [y \in 1..shape.y_grid |->
                    LET from == {it \in (0..shape.x_grid - 1) \X (0..shape.y_grid - 1) :
                                    StoredAt(t - 1, it[1], it[2], shape) = <<x - 1, y - 1>>}
                    IN  IF from = {} THEN 0
                        ELSE LET last == CHOOSE it \in from : \A o \in from :
                                             o[1] < it[1] \/ (o[1] = it[1] /\ o[2] <= it[2])
                             IN  moment_map[t][last[1] + 1][last[2] + 1]]]]

\* np.linspace(bin / 2, pix - bin / 2, num=grid)[it] with bin = pix / grid
lin(pix, grid, it) == (pix \div grid) \div 2 + it * (pix \div grid)

\* Lines 811-820: the mapper on the generic grid, CCD by CCD.
GlobalGrid(shape) ==
    [t \in 1..shape.n_ccd |->
        [x \in 1..shape.x_grid |->
            [y \in 1..shape.y_grid |->
                loc2glob_img_coord(t - 1, lin(x_npix, shape.x_grid, x - 1),
                                   lin(y_npix, shape.y_grid, y - 1))]]]

MomentInterpolator_outcome(moment_map) ==
    LET shape == Shape(moment_map)
        glob == GlobalGrid(shape)
    IN  IF \E t \in DOMAIN glob : \E x \in DOMAIN glob[t] : \E y \in DOMAIN glob[t][x] :
               glob[t][x][y].status # "ok"
        THEN [status |-> "TypeError"]
        ELSE [status |-> "done",
              moment_map |-> ReorderedMap(moment_map),
              x_pos |-> [t \in DOMAIN glob |-> [x \in DOMAIN glob[t] |->
                            [y \in DOMAIN glob[t][x] |-> glob[t][x][y].gx]]],
              y_pos |-> [t \in DOMAIN glob |-> [x \in DOMAIN glob[t] |->
                            [y \in DOMAIN glob[t][x] |-> glob[t][x][y].gy]]]]

MomentInterpolator_init ==
    /\ g_pc = "call"
    /\ g_self' = MomentInterpolator_outcome(g_moment_map)
    /\ g_pc' = "constructed"
    /\ UNCHANGED g_moment_map
    /\ UNCHANGED <<mapperVars, batcherVars, assemblerVars, rejectorVars, neighborVars, maskVars, piVars>>

\* The maps tried: of MaxMapCcds CCDs at most, one more than MegaCam has,
\* on the grids below, every cell holding a value of its own.
MaxMapCcds == 41

XGrids == {1, 2, 4}

YGrids == {1, 2}

CellMap(n_ccd, x_grid, y_grid) ==
    [t \in 1..n_ccd |-> [x \in 1..x_grid |-> [y \in 1..y_grid |->
        (t - 1) * x_grid * y_grid + (x - 1) * y_grid + y]]]

NoMap == <<>>

NoInterpolator == [status |-> "none"]

GridIdle ==
    /\ g_pc = "idle"
    /\ g_moment_map = NoMap
    /\ g_self = NoInterpolator

InitGridCall ==
    /\ g_pc = "call"
    /\ g_self = NoInterpolator
    /\ \E n_ccd \in 0..MaxMapCcds : \E x_grid \in XGrids : \E y_grid \in YGrids :
          g_moment_map = CellMap(n_ccd, x_grid, y_grid)

(***************************************************************************)
(* Specifications                                                          *)
(***************************************************************************)

InitMapper ==
    InitMapperCall /\ BatcherIdle /\ AssemblerIdle /\ RejectorIdle /\ NeighborIdle
        /\ MaskIdle /\ PiIdle /\ GridIdle

NextMapper == ToGlobal

SpecMapper == InitMapper /\ [][NextMapper]_vars

InitBatcher ==
    MapperIdle /\ InitBatcherCall /\ AssemblerIdle /\ RejectorIdle /\ NeighborIdle
        /\ MaskIdle /\ PiIdle /\ GridIdle

NextBatcher == parse_pipeline_input_list \/ parse_folder

SpecBatcher == InitBatcher /\ [][NextBatcher]_vars

InitAssembler ==
    MapperIdle /\ BatcherIdle /\ InitAssemblerCalls /\ RejectorIdle /\ NeighborIdle
        /\ MaskIdle /\ PiIdle /\ GridIdle

NextAssembler == get_inputs

SpecAssembler == InitAssembler /\ [][NextAssembler]_vars

InitRejector ==
    MapperIdle /\ BatcherIdle /\ AssemblerIdle /\ InitRejectorCall /\ NeighborIdle
        /\ MaskIdle /\ PiIdle /\ GridIdle /\ r_alias = FALSE

NextRejector == outlier_rejection

SpecRejector == InitRejector /\ [][NextRejector]_vars

InitNeighbors ==
    MapperIdle /\ BatcherIdle /\ AssemblerIdle /\ RejectorIdle /\ InitNeighborCall
        /\ MaskIdle /\ PiIdle /\ GridIdle

NextNeighbors == return_loc_neighbors \/ return_glob_neighbors

SpecNeighbors == InitNeighbors /\ [][NextNeighbors]_vars

InitPi ==
    MapperIdle /\ BatcherIdle /\ AssemblerIdle /\ RejectorIdle /\ NeighborIdle
        /\ MaskIdle /\ InitPiCall /\ GridIdle

NextPi == interpolation_Pi

SpecPi == InitPi /\ [][NextPi]_vars

InitGrid ==
    MapperIdle /\ BatcherIdle /\ AssemblerIdle /\ RejectorIdle /\ NeighborIdle
        /\ MaskIdle /\ PiIdle /\ InitGridCall

NextGrid == MomentInterpolator_init

SpecGrid == InitGrid /\ [][NextGrid]_vars

\* The rejection of what get_inputs has assembled: the instance holds the
\* lists its get_inputs returned (lines 415-423), and outlier_rejection is
\* called on them.
HeldByInstance(args) ==
    /\ a_calls = <<>>
    /\ a_idx = 1
    /\ a_last = "done"
    /\ star_list = Some(args.star_list)
    /\ position_list = Some(args.pos_list)
    /\ mask_list = Some(args.mask_list)
    /\ ccd_list = Some(args.ccd_list)
    /\ SNR_list = args.SNR_list
    /\ RA_list = args.RA_list
    /\ DEC_list = args.DEC_list
    /\ a_ret = [star_list |-> star_list, position_list |-> position_list,
                mask_list |-> mask_list, ccd_list |-> ccd_list,
                SNR_list |-> SNR_list, RA_list |-> RA_list, DEC_list |-> DEC_list]

InitPipeline ==
    MapperIdle /\ BatcherIdle /\ InitRejectorCall /\ HeldByInstance(r_args)
        /\ NeighborIdle /\ MaskIdle /\ PiIdle /\ GridIdle /\ r_alias = TRUE

NextPipeline == outlier_rejection

SpecPipeline == InitPipeline /\ [][NextPipeline]_vars

\* The masks: handle_mask on its own and within the assembling.
InitMasks ==
    \/ InitAssembler
    \/ MapperIdle /\ BatcherIdle /\ AssemblerIdle /\ RejectorIdle /\ NeighborIdle
        /\ InitMaskCall /\ PiIdle /\ GridIdle

NextMasks == handle_mask \/ get_inputs

SpecMasks == InitMasks /\ [][NextMasks]_vars

Init == InitMapper \/ InitBatcher \/ InitAssembler \/ InitRejector \/ InitNeighbors
            \/ InitMasks \/ InitPi \/ InitGrid \/ InitPipeline

Next == NextMapper \/ NextBatcher \/ NextAssembler \/ NextRejector \/ NextNeighbors
            \/ NextMasks \/ NextPi \/ NextGrid \/ NextPipeline

Spec == Init /\ [][Next]_vars

(***************************************************************************)
(* Properties                                                              *)
(***************************************************************************)

\* The reference table of the instrument, as the claim states it.
RefP == x_gap + x_npix
RefQ == y_gap + y_npix

RefFlipped(id) == id < 18 \/ id = 36 \/ id = 37

RefOffset(id) ==
    CASE id \in 0..8 -> <<(id - 4) * RefP, RefQ>>
      [] id \in 9..17 -> <<(id - 13) * RefP, 0>>
      [] id \in 18..26 -> <<(id - 22) * RefP, 0 - RefQ>>
      [] id \in 27..35 -> <<(id - 31) * RefP, 0 - 2 * RefQ>>
      [] id = 36 -> <<0 - 5 * RefP, 0>>
      [] id = 37 -> <<5 * RefP, 0>>
      [] id = 38 -> <<0 - 5 * RefP, 0 - RefQ>>
      [] id = 39 -> <<5 * RefP, 0 - RefQ>>

\* C1: for every tile id in 0..39 the result of toGlobal is the flipped (ids
\* below 18, 36 and 37) or unchanged local position plus the offset of the
\* reference table.
C1_ReferenceTable ==
    (m_pc = "done" /\ m_ccd \in 0..39) =>
        /\ m_ret.status = "ok"
        /\ m_ret.gx = (IF RefFlipped(m_ccd) THEN x_npix - m_x + 1 ELSE m_x) + RefOffset(m_ccd)[1]
        /\ m_ret.gy = (IF RefFlipped(m_ccd) THEN y_npix - m_y + 1 ELSE m_y) + RefOffset(m_ccd)[2]

\* A flipped ear tile has been mapped.
C1_Witness ==
    /\ m_pc = "done"
    /\ m_ccd = 36
    /\ m_x = 1
    /\ m_ret.status = "ok"
    /\ m_ret.gx = x_npix - 5 * RefP

\* C2: a call with a tile id outside 0..39 fails and returns no coordinate pair.
C2_InvalidTileIdFails ==
    (m_pc = "done" /\ m_ccd \notin 0..39) => m_ret.status # "ok"

\* The list of paths the parser that ran has grouped, in discovery order.
Discovered ==
    IF b_op = "folder" THEN SortedStrs(Range(b_input)) ELSE b_input

DiscoveredIds == {parse_path(Discovered[i]).starcat_id : i \in DOMAIN Discovered}

\* The input records with exposure id st_id, in discovery order.
RecordsOf(st_id) ==
    SelectSeq([i \in DOMAIN Discovered |->
                  <<parse_path(Discovered[i]).starcat_id,
                    parse_path(Discovered[i]).ccd_n, Discovered[i]>>],
              LAMBDA r : r[1] = st_id)

RECURSIVE SumLen(_)
SumLen(groups) ==
    IF groups = <<>> THEN 0 ELSE Len(Head(groups)) + SumLen(Tail(groups))

\* C9: a completed grouping has one group per distinct exposure id of the
\* input, in ascending order of the ids (compared as the strings they are),
\* each group holding exactly the input records of its id in discovery order,
\* so that every record is in exactly one group; the id list is aligned with
\* the groups.
C9_OneGroupPerExposure ==
    b_pc = "done" =>
        /\ Len(starcat_list) = Cardinality(DiscoveredIds)
        /\ Len(catalog_ids) = Len(starcat_list)
        /\ num_catalogs = Len(starcat_list)
        /\ Range(catalog_ids) = DiscoveredIds
        /\ \A i, j \in DOMAIN catalog_ids : i < j => StrLess(catalog_ids[i], catalog_ids[j])
        /\ \A g \in DOMAIN starcat_list :
              /\ \A k \in DOMAIN starcat_list[g] : starcat_list[g][k][1] = catalog_ids[g]
              /\ starcat_list[g] = RecordsOf(catalog_ids[g])
        /\ SumLen(starcat_list) = Len(Discovered)

\* Three files of two exposures, the ids "10" and "9", have been grouped.
C9_Witness ==
    /\ b_pc = "done"
    /\ Len(b_input) = 3
    /\ Len(starcat_list) = 2
    /\ catalog_ids = << <<"1", "0">>, <<"9">> >>
    /\ Len(starcat_list[2]) = 2
    /\ starcat_list[2][1][3] # starcat_list[2][2][3]

\* C10: an input in which one exposure has the same tile twice is refused:
\* no completed grouping holds a group with a repeated tile id.
C10_DuplicateTileFails ==
    b_pc = "done" =>
        \A g \in DOMAIN starcat_list :
            \A i, j \in DOMAIN starcat_list[g] :
                i # j => StrToInt(starcat_list[g][i][2]) # StrToInt(starcat_list[g][j][2])

\* The group of the last call of get_inputs.
LastBatch == a_calls[a_idx - 1]

AllOrNothing(lists, batch) ==
    /\ lists.SNR_list.some => Len(lists.SNR_list.v) = Len(batch)
    /\ lists.RA_list.some <=> lists.DEC_list.some
    /\ lists.RA_list.some =>
          Len(lists.RA_list.v) = Len(batch) /\ Len(lists.DEC_list.v) = Len(batch)
    /\ (\E i \in DOMAIN batch : ~batch[i][3].hasSNR) => ~lists.SNR_list.some
    /\ (\E i \in DOMAIN batch : ~batch[i][3].hasRA \/ ~batch[i][3].hasDEC) =>
          ~lists.RA_list.some /\ ~lists.DEC_list.some

\* C7: after a completed assembling the SNR output is absent or has one entry
\* per record, the two sky-coordinate outputs are absent together or have one
\* entry per record each, and an output is absent as soon as one record of
\* the batch, wherever it stands, lacks the field.
C7_AllOrNothing ==
    a_last = "done" => AllOrNothing(a_ret, LastBatch) /\ AllOrNothing(Stored, LastBatch)

\* A batch whose first record lacks the SNR and whose second has it (and both
\* have the sky coordinates) has been assembled.
C7_Witness ==
    /\ a_last = "done"
    /\ Len(LastBatch) = 2
    /\ ~LastBatch[1][3].hasSNR
    /\ LastBatch[2][3].hasSNR
    /\ ~a_ret.SNR_list.some
    /\ a_ret.RA_list.some
    /\ Len(a_ret.RA_list.v) = 2

\* C8: a call of get_inputs on a batch with a record whose payload cannot be
\* read ends with the read error, returns nothing and leaves the stored
\* lists as they were.
C8_ReadErrorAborts ==
    [][(a_idx' = a_idx + 1 /\ \E i \in DOMAIN a_calls[a_idx] : ~a_calls[a_idx][i][3].readable)
          => /\ a_last' = "PayloadReadError"
             /\ a_ret' = NoLists
             /\ UNCHANGED storedVars]_vars

\* A call has failed on an unreadable payload after an earlier call had
\* stored the lists of one catalogue.
C8_Witness ==
    /\ a_idx = 3
    /\ a_last = "PayloadReadError"
    /\ star_list.some
    /\ Len(star_list.v) = 1
    /\ a_ret = NoLists

\* The stars of the call in concatenation order (the uid of a star is its
\* place in this order), the call having returned its lists.
RFlat == Concatenate(r_args.star_list)

Rejected == r_pc = "returned" /\ r_ret.status = "done"

\* The observations the call erased, by uid.
ErasedUids ==
    UNION {{r_args.star_list[t][i].uid : i \in 1..Len(r_args.star_list[t])} :
              t \in DOMAIN r_args.star_list}
    \ UNION {{r_ret.star_list[t][i].uid : i \in 1..Len(r_ret.star_list[t])} :
                t \in DOMAIN r_ret.star_list}

Quantities == {"e1", "e2", "r2"}

\* The observations whose magnitude of quantity q exceeds mean + sigma*std,
\* the mean and std being those of q over the whole batch (n values, their
\* sum and the sum of their squares):
\* n*|v| - sum > sigma * sqrt(n*sumsq - sum^2).
ExceedingBatchThreshold(q, sigma) ==
    LET n == Len(RFlat)
        sum == SeqSum([k \in DOMAIN RFlat |-> RFlat[k][q]])
        sumsq == SeqSum([k \in DOMAIN RFlat |-> RFlat[k][q] * RFlat[k][q]])
    IN  {g \in DOMAIN RFlat :
            /\ n * Abs(RFlat[g][q]) > sum
            /\ (n * Abs(RFlat[g][q]) - sum) * (n * Abs(RFlat[g][q]) - sum)
                   > sigma * sigma * (n * sumsq - sum * sum)}

OtherValues(q, g) ==
    [k \in 1..(Len(RFlat) - 1) |-> RFlat[IF k < g THEN k ELSE k + 1][q]]

\* n^2 times the variance of vals.
ScaledVariance(vals) ==
    Len(vals) * SeqSum([k \in DOMAIN vals |-> vals[k] * vals[k]]) - SeqSum(vals) * SeqSum(vals)

\* Observation g has its e1 at mean + 10*std and every other observation has
\* its three quantities within 1*std of their means, the means and std being
\* those of the other observations (the batch into which the outlier is put).
InjectedOutlier(g) ==
    LET m == Len(RFlat) - 1
        e1s == OtherValues("e1", g)
        gap == m * RFlat[g].e1 - SeqSum(e1s)
    IN  /\ m >= 2
        /\ ScaledVariance(e1s) > 0
        /\ gap > 0
        /\ gap * gap = 100 * ScaledVariance(e1s)
        /\ \A q \in Quantities : \A k \in 1..m :
              LET dev == m * OtherValues(q, g)[k] - SeqSum(OtherValues(q, g))
              IN  dev * dev <= ScaledVariance(OtherValues(q, g))

\* The tile of the observation with uid g.
TileOf(g) ==
    CHOOSE t \in DOMAIN r_args.star_list :
        \E i \in 1..Len(r_args.star_list[t]) : r_args.star_list[t][i].uid = g

\* C4: with sigma = 5, in a batch with one injected e1 outlier no observation
\* but the outlier is removed, and the stamps, masks and positions of every
\* tile but the outlier's keep their length.  (Whether the outlier itself is
\* removed is left out: in a batch of MaxObs stars no value is 5 std above the
\* mean of the batch that holds it.)
C4_OnlyTheOutlierRemoved ==
    (Rejected /\ r_args.shape_std_max = 5) =>
        \A g \in DOMAIN RFlat :
            InjectedOutlier(g) =>
                /\ ErasedUids \subseteq {g}
                /\ \A t \in DOMAIN r_args.star_list :
                      t # TileOf(g) =>
                          /\ Len(r_ret.star_list[t]) = Len(r_args.star_list[t])
                          /\ Len(r_ret.mask_list[t]) = Len(r_args.mask_list[t])
                          /\ Len(r_ret.pos_list[t]) = Len(r_args.pos_list[t])

\* Whether the thresholds flag the g-th star of the concatenation.
Flagged == bad_stars(StarShapes(RFlat), r_args.shape_std_max)

\* The uids of tile t that are not flagged, in their order.
Unflagged(flagged, t) == SelectSeq(r_args.pos_list[t], LAMBDA u : ~flagged[u])

KeptUnflagged(flagged, argList, retList) ==
    /\ argList.some <=> retList.some
    /\ argList.some =>
          \A t \in DOMAIN r_args.star_list : retList.v[t] = Unflagged(flagged, t)

\* C6: after reject every per-tile list (stamps, masks, positions, and the
\* SNR and sky lists when given) holds exactly the observations of its tile
\* that were not flagged, in their order, the flagged flat index g standing
\* for the g-th observation of the concatenation; the erase masks mark the
\* same observations.
C6_ParallelListsKeepUnflagged ==
    Rejected =>
        LET flagged == Flagged
        IN  /\ \A t \in DOMAIN r_args.star_list :
                  LET kept == Unflagged(flagged, t)
                  IN  /\ [i \in 1..Len(r_ret.star_list[t]) |-> r_ret.star_list[t][i].uid] = kept
                      /\ r_ret.mask_list[t] = kept
                      /\ r_ret.pos_list[t] = kept
                      /\ \A i \in 1..Len(r_args.star_list[t]) :
                            r_ret.erase_masks[t][i] <=> flagged[r_args.star_list[t][i].uid]
            /\ KeptUnflagged(flagged, r_args.SNR_list, r_ret.SNR_list)
            /\ KeptUnflagged(flagged, r_args.RA_list, r_ret.RA_list)
            /\ KeptUnflagged(flagged, r_args.DEC_list, r_ret.DEC_list)

\* The last star of the second tile was erased from a batch with a star in
\* each tile before it, the SNR list being given.
C6_Witness ==
    /\ Rejected
    /\ Len(r_args.star_list[1]) = 1
    /\ Len(r_args.star_list[2]) = 2
    /\ ErasedUids = {3}
    /\ r_args.SNR_list.some
    /\ r_ret.SNR_list.v = << <<1>>, <<2>> >>

\* The observations a search had to choose from, by their values.
Available ==
    IF n_op.fn = "loc" THEN Range(n_args.val_list[n_op.ccd])
    ELSE Range(Concatenate(n_args.val_list))

PositionOf(val) == Concatenate(n_args.obs_pos_list)[val]

AscendingFrom(positions) ==
    \A i \in DOMAIN positions :
        i < Len(positions)
            => SqNorm(positions[i], n_args.new_pos) <= SqNorm(positions[i + 1], n_args.new_pos)

\* C3: a search, local or global, asked for as many neighbours as the
\* observations there are to choose from, or for more, returns without an
\* error every one of them once, in the order of ascending distance from
\* the query.
C3_AllReturnedWhenKExceeds ==
    (/\ n_pc = "returned"
     /\ n_args.obs_pos_list # <<>>
     /\ n_args.n_neighbors >= Cardinality(Available))
        => /\ n_ret.status = "done"
           /\ Len(n_ret.values) = Cardinality(Available)
           /\ Range(n_ret.values) = Available
           /\ \A i \in DOMAIN n_ret.values :
                 n_ret.positions[i] = PositionOf(n_ret.values[i])
           /\ AscendingFrom(n_ret.positions)

\* The local search alone does what C3 says.
LocalAllReturnedWhenKExceeds ==
    n_op.fn = "loc" => C3_AllReturnedWhenKExceeds

\* The path without its extension: what precedes its last dot.
Stem(path) ==
    LET dots == {i \in DOMAIN path : path[i] = "."}
    IN  IF dots = {} THEN path
        ELSE SubSeq(path, 1, (CHOOSE i \in dots : \A j \in dots : j <= i) - 1)

LastTwoTokens(path) ==
    LET tokens == Split(Stem(path), separator)
    IN  <<tokens[Len(tokens) - 1], tokens[Len(tokens)]>>

\* C11: once a parser has run on a list of files named
\* <prefix><separator><exposure id><separator><CCD id>.<extension>, whatever
\* the directory prefix, every file is recorded with the last two tokens of
\* its path, the extension removed, as its exposure id and CCD id.
C11_LastTwoTokensWhateverPrefix ==
    (b_pc \notin {"idle", "call"} /\ b_input # <<>>)
        => /\ b_pc = "done"
           /\ \A g \in DOMAIN starcat_list : \A k \in DOMAIN starcat_list[g] :
                 <<starcat_list[g][k][1], starcat_list[g][k][2]>>
                     = LastTwoTokens(starcat_list[g][k][3])

\* C12: whatever the print_fun it is given does, a call on a batch that a
\* call with a working print_fun completes on completes too, and returns
\* the same kept lists and erase masks.
C12_ReportingNeverBlocks ==
    (r_pc = "returned" /\ outlier_rejection_outcome(r_args).status = "done")
        => r_ret = outlier_rejection_outcome(r_args)

DistanceOf(val) == SqNorm(PositionOf(val), n_args.new_pos)

\* The place of an observation in the stable ascending ordering: after the
\* nearer ones and after those as far with a smaller index.
StableRank(val) ==
    1 + Cardinality({w \in Available :
            \/ DistanceOf(w) < DistanceOf(val)
            \/ DistanceOf(w) = DistanceOf(val) /\ w < val})

\* C13 as stated: a search, local or global, asked for no more neighbours
\* than the observations there are to choose from returns the values and
\* positions of the first n_neighbors observations of the ascending-distance
\* ordering in which observations as far as each other keep their original
\* order, each value with the position of its observation.
C13_FirstKOfStableOrdering ==
    (/\ n_pc = "returned"
     /\ n_args.obs_pos_list # <<>>
     /\ n_args.n_neighbors <= Cardinality(Available))
        => /\ n_ret.status = "done"
           /\ Len(n_ret.values) = n_args.n_neighbors
           /\ Len(n_ret.positions) = n_args.n_neighbors
           /\ \A i \in DOMAIN n_ret.values :
                 /\ StableRank(n_ret.values[i]) = i
                 /\ n_ret.positions[i] = PositionOf(n_ret.values[i])

\* C13, with the order of equal distances left open: a search, local or
\* global, asked for no more neighbours than the observations there are to
\* choose from returns n_neighbors distinct observations, each value with
\* the position of its observation, in ascending distance from the query,
\* and no observation left out is nearer than one returned; so one
\* neighbour is an observation of minimum distance.
C13_NearestKAscending ==
    (/\ n_pc = "returned"
     /\ n_args.obs_pos_list # <<>>
     /\ n_args.n_neighbors <= Cardinality(Available))
        => /\ n_ret.status = "done"
           /\ Len(n_ret.values) = n_args.n_neighbors
           /\ Cardinality(Range(n_ret.values)) = n_args.n_neighbors
           /\ Range(n_ret.values) \subseteq Available
           /\ \A i \in DOMAIN n_ret.values :
                 n_ret.positions[i] = PositionOf(n_ret.values[i])
           /\ AscendingFrom(n_ret.positions)
           /\ \A w \in Available \ Range(n_ret.values) :
                 \A i \in DOMAIN n_ret.values :
                     DistanceOf(n_ret.values[i]) <= DistanceOf(w)

\* A global search over two tiles has returned two of three observations:
\* the two as far as each other, the later one first.
C13_Witness ==
    /\ n_pc = "returned"
    /\ n_op.fn = "glob"
    /\ Len(n_args.obs_pos_list) = 2
    /\ n_args.n_neighbors = 2
    /\ Cardinality(Available) = 3
    /\ n_ret.status = "done"
    /\ n_ret.values = <<3, 1>>
    /\ DistanceOf(3) = DistanceOf(1)
    /\ DistanceOf(2) > DistanceOf(1)

Below(v, thresh) == v < thresh

\* C14: the mask handle_mask returns has the shape of the stamps and is 0
\* where the stamp value is below the threshold and 1 elsewhere; with
\* apply_to_stars the stamps are 0 afterwards at those pixels and as they
\* were at the others, and without it they are as they were; and so every
\* stamp of an assembled exposure is 0 wherever its mask is 0.
C14_MaskMarksBelowThreshold ==
    /\ h_pc = "returned" =>
          /\ DOMAIN h_ret.mask = DOMAIN h_args.stars
          /\ DOMAIN h_ret.stars = DOMAIN h_args.stars
          /\ \A n \in DOMAIN h_args.stars :
                /\ DOMAIN h_ret.mask[n] = DOMAIN h_args.stars[n]
                /\ DOMAIN h_ret.stars[n] = DOMAIN h_args.stars[n]
                /\ \A p \in DOMAIN h_args.stars[n] :
                      /\ h_ret.mask[n][p] =
                            (IF Below(h_args.stars[n][p], h_args.thresh) THEN 0 ELSE 1)
                      /\ h_ret.stars[n][p] =
                            (IF h_args.apply_to_stars
                                    /\ Below(h_args.stars[n][p], h_args.thresh)
                             THEN 0 ELSE h_args.stars[n][p])
    /\ a_last = "done" =>
          \A t \in DOMAIN a_ret.star_list.v :
              \A n \in DOMAIN a_ret.star_list.v[t] :
                  \A p \in DOMAIN a_ret.star_list.v[t][n] :
                      a_ret.mask_list.v[t][n][p] = 0 => a_ret.star_list.v[t][n][p] = 0

\* handle_mask has zeroed the masked pixel of a stamp and left the pixel on
\* the threshold, and another stamp, as they were.
C14_Witness ==
    /\ h_pc = "returned"
    /\ h_args.apply_to_stars
    /\ h_args.thresh = mask_thresh
    /\ h_args.stars = << <<MaskedPixel, mask_thresh>>, <<0, 5>> >>
    /\ h_ret.mask = << <<0, 1>>, <<1, 1>> >>
    /\ h_ret.stars = << <<0, mask_thresh>>, <<0, 5>> >>

\* The raw monomial row of a tile, and the square of the L2 norm of the row
\* taken over all the tiles combined.
RawRow(t, row) ==
    [j \in DOMAIN p_args.position_list[t] |-> MonomialAt(row, p_args.position_list[t][j])]

NormSquared(row) ==
    SumSquares([j \in DOMAIN Concatenate(p_args.position_list) |->
                   MonomialAt(row, Concatenate(p_args.position_list)[j])])

\* raw / norm / first: first being the constant-term entry of the first
\* tile once divided by the norm of its row, 1 / sqrt(NormSquared(1)).
TwiceDivided(raw, row) ==
    IF NormSquared(row) = 0 THEN NaN
    ELSE [nan |-> FALSE, a |-> raw, b |-> 1, p |-> NormSquared(1), q |-> NormSquared(row)]

\* C15: a call that returns gives one matrix per tile, each of
\* (d_comp_glob + 1)(d_comp_glob + 2)/2 rows and a column per position of
\* the tile, whose row r is the raw monomial row of the tile divided by the
\* L2 norm of row r over all the tiles combined and then by the first
\* tile's constant-term entry as the norm division left it, one value for
\* all the tiles; the constant-term entry of the first tile is 1.
C15_GlobalNormThenConstantRescale ==
    (p_pc = "returned" /\ p_ret.status = "done")
        => /\ Len(p_ret.interp_Pi) = Len(p_args.position_list)
           /\ \A t \in DOMAIN p_ret.interp_Pi :
                 /\ 2 * Len(p_ret.interp_Pi[t])
                        = (p_args.d_comp_glob + 1) * (p_args.d_comp_glob + 2)
                 /\ \A row \in DOMAIN p_ret.interp_Pi[t] :
                       /\ Len(p_ret.interp_Pi[t][row]) = Len(p_args.position_list[t])
                       /\ \A j \in DOMAIN p_ret.interp_Pi[t][row] :
                             NumEq(p_ret.interp_Pi[t][row][j],
                                   TwiceDivided(RawRow(t, row)[j], row))
           /\ NumEq(p_ret.interp_Pi[1][1][1], Num(1))

\* Two tiles at degree 2: the second tile's x*y entry, -2 before, is
\* -2 * sqrt(3 / 8) after, and its constant entry is 1 as the first tile's.
C15_Witness ==
    /\ p_pc = "returned"
    /\ p_ret.status = "done"
    /\ p_args.d_comp_glob = 2
    /\ p_args.position_list = << << <<1, 0>>, <<1, 2>> >>, << <<-2, 1>> >> >>
    /\ NumEq(p_ret.interp_Pi[2][5][1],
             [nan |-> FALSE, a |-> -2, b |-> 1, p |-> 3, q |-> 8])
    /\ NumEq(p_ret.interp_Pi[2][1][1], Num(1))

GridShape == Shape(g_moment_map)

Cells == (1..GridShape.n_ccd) \X (1..GridShape.x_grid) \X (1..GridShape.y_grid)

\* The centre of the local cell (i, j), cells counted from 1.
CentreX(i) == ((2 * i - 1) * x_npix) \div (2 * GridShape.x_grid)

CentreY(j) == ((2 * j - 1) * y_npix) \div (2 * GridShape.y_grid)

Assembled ==
    [star_list |-> Some(r_args.star_list),
     position_list |-> Some(r_args.pos_list),
     mask_list |-> Some(r_args.mask_list),
     ccd_list |-> Some(r_args.ccd_list),
     SNR_list |-> r_args.SNR_list,
     RA_list |-> r_args.RA_list,
     DEC_list |-> r_args.DEC_list]

\* No measure of the batch is negative: what the call flags there is above
\* the mean by shape_std_max deviations, as the documentation has it.
NoNegativeMeasure ==
    \A g \in DOMAIN RFlat : RFlat[g].e1 >= 0 /\ RFlat[g].e2 >= 0 /\ RFlat[g].r2 >= 0

\* C17: a call of outlier_rejection on the lists get_inputs returned leaves
\* the dataset the instance holds as it was, every assembled observation
\* still in it; the list of CCD ids is returned as it was given, and when
\* no star is flagged every list is.  Stated of the batches with no
\* negative measure.
C17_RejectLeavesAssembledDataset ==
    (r_alias /\ r_pc = "returned" /\ NoNegativeMeasure)
        => /\ star_list = Assembled.star_list
           /\ position_list = Assembled.position_list
           /\ mask_list = Assembled.mask_list
           /\ ccd_list = Assembled.ccd_list
           /\ SNR_list = Assembled.SNR_list
           /\ RA_list = Assembled.RA_list
           /\ DEC_list = Assembled.DEC_list
           /\ r_ret.status = "done" =>
                 /\ r_ret.ccd_list = r_args.ccd_list
                 /\ ErasedUids = {} =>
                       /\ r_ret.star_list = r_args.star_list
                       /\ r_ret.pos_list = r_args.pos_list
                       /\ r_ret.mask_list = r_args.mask_list
                       /\ r_ret.SNR_list = r_args.SNR_list
                       /\ r_ret.RA_list = r_args.RA_list
                       /\ r_ret.DEC_list = r_args.DEC_list

\* What does hold of C17: the list of CCD ids is never changed, and a call
\* that flags no star, or that does not return, changes nothing.
RejectLeavesCcdsAndUnflaggedBatches ==
    (r_alias /\ r_pc = "returned")
        => /\ ccd_list = Assembled.ccd_list
           /\ (r_ret.status # "done" \/ ErasedUids = {}) =>
                 /\ star_list = Assembled.star_list
                 /\ position_list = Assembled.position_list
                 /\ mask_list = Assembled.mask_list
                 /\ SNR_list = Assembled.SNR_list
                 /\ RA_list = Assembled.RA_list
                 /\ DEC_list = Assembled.DEC_list
           /\ r_ret.status = "done" =>
                 /\ r_ret.ccd_list = r_args.ccd_list
                 /\ ErasedUids = {} => r_ret.star_list = r_args.star_list

====
